---- MODULE Spec2Model ----
(***************************************************************************)
(* A model of whyzer's chat-log parser (src/whyzer.py, class Parser):      *)
(* parse_file / parse_line accumulate entries, handle_entry classifies     *)
(* them, handle_text_message aggregates chat messages and extracts words.  *)
(*                                                                         *)
(* Strings are TLA+ strings; Ch(s, i) is the i-th character (1-based).     *)
(* A datetime is the number of seconds since 2020-01-01 00:00 (naive, as   *)
(* datetime.strptime returns it), so that the difference of two datetimes  *)
(* is timedelta.total_seconds().                                           *)
(***************************************************************************)
EXTENDS Integers, Sequences, FiniteSets, TLC

VARIABLES
    language,          \* key of the locale profile given to Parser()
    aliases,           \* self.aliases: function raw author -> alias
    multipart,         \* self.multipart
    date_buffer,       \* self.date_buffer (None or the date text)
    content_buffer,    \* self.content_buffer
    chat_name,         \* self.chat_name (None or the title)
    member_msg_count,  \* self.member_msg_count (defaultdict(int))
    msgs,              \* self.msgs: list of [author, date, len, parts, initiator]
    all_words,         \* self.all_words
    fp,                \* the lines parse_file iterates over
    i,                 \* parse_file's line counter
    pc,                \* "ready", "parsing", "done" or "exit"
    exit_status,       \* argument of sys.exit, None while running
    stderr,            \* diagnostics printed to sys.stderr
    calls,             \* history: handle_text_message calls made, per author
    last_call,         \* history: arguments of the latest handle_text_message
    chrono,            \* history: every call's date was >= the previous call's
    ingested,          \* history: the arguments of every handle_text_message call
    handled,           \* history: the buffers of every handle_entry call
    titles             \* history: every value assigned to self.chat_name

vars == <<language, aliases, multipart, date_buffer, content_buffer, chat_name,
          member_msg_count, msgs, all_words, fp, i, pc, exit_status, stderr,
          calls, last_call, chrono, ingested, handled, titles>>

\* a value that may be None is None or Some(x)
None == <<>>

Some(x) == <<x>>

Val(o) == o[1]

-----------------------------------------------------------------------------
(* Bounds of the model. *)

\* number of direct handle_text_message calls in one behaviour of Spec
MaxCalls == 3

\* number of lines of the files parse_file is run on in SpecParse
MaxLines == 3

-----------------------------------------------------------------------------
(* Characters and strings. *)

Ch(s, k) == SubSeq(s, k, k)

Tail_(s, k) == SubSeq(s, k, Len(s))

Digits == "0123456789"

LowerCase == "abcdefghijklmnopqrstuvwxyzäöü"

UpperCase == "ABCDEFGHIJKLMNOPQRSTUVWXYZÄÖÜ"

Chars(s) == {Ch(s, k) : k \in 1..Len(s)}

DigitChars == Chars(Digits)

UpperChars == Chars(UpperCase)

\* the characters [\w'-] matches
WordChars == Chars(Digits) \cup Chars(LowerCase) \cup Chars(UpperCase)
                 \cup {"ß", "_", "'", "-"}

IsDigit(c) == c \in DigitChars

IsWordChar(c) == c \in WordChars

RECURSIVE FindFrom(_, _, _)
FindFrom(s, sub, k) == IF k + Len(sub) - 1 > Len(s) THEN 0
                       ELSE IF SubSeq(s, k, k + Len(sub) - 1) = sub THEN k
                       ELSE FindFrom(s, sub, k + 1)

\* s.find(sub) + 1: the 1-based position of the first occurrence, 0 if none
Find(s, sub) == FindFrom(s, sub, 1)

\* sub in s  (Python's substring test)
Contains(s, sub) == Find(s, sub) # 0

DigitVal(c) == Find(Digits, c) - 1

RECURSIVE Num(_)
\* int() of a string of decimal digits
Num(s) == IF s = "" THEN 0
          ELSE 10 * Num(SubSeq(s, 1, Len(s) - 1)) + DigitVal(Ch(s, Len(s)))

\* str.lower() of one character
LowerCh(c) == IF c \in UpperChars THEN Ch(LowerCase, Find(UpperCase, c)) ELSE c

RECURSIVE LowerFrom(_, _)
LowerFrom(s, k) == IF k > Len(s) THEN "" ELSE LowerCh(Ch(s, k)) \o LowerFrom(s, k + 1)

\* str.lower()
lower(s) == LowerFrom(s, 1)

\* the number of places of s at which sub occurs
Count(s, sub) == Cardinality({k \in 1..(Len(s) - Len(sub) + 1) :
                                 SubSeq(s, k, k + Len(sub) - 1) = sub})

-----------------------------------------------------------------------------
(* The locale profiles and the regular expressions.                        *)
(*                                                                         *)
(* A pattern that re.compile gets is written as the sequence of its        *)
(* pieces: a greedy wildcard, a greedy wildcard that is group 1, a dot     *)
(* (one character), or literal text; the anchors are implied.  The date    *)
(* part of date_content is written as a shape, in which d stands for a     *)
(* digit and the dot for the regex's dot.  The module's strings are        *)
(* Latin-1, so the German quotation marks U+201E and U+201C of the de      *)
(* profile are written with the guillemets.                                *)

languages ==
    [en |-> [date_content |-> "dd/dd/dddd, dd:dd",
             deleted      |-> <<"This message was deleted">>,
             media        |-> <<"<Media omitted>">>,
             date_format  |-> "%d/%m/%Y, %H:%M",
             created      |-> <<".*", " created Group \"", "(.*)", "\"">>,
             rename       |-> <<".*", " changed the subject from \"", ".*",
                                "\" to \"", "(.*)", "\"">>],
     de |-> [date_content |-> "dd.dd.dd, dd:dd",
             deleted      |-> <<"Diese Nachricht wurde gelöscht", ".">>,
             media        |-> <<"<Medien ausgeschlossen>">>,
             date_format  |-> "%d.%m.%y, %H:%M",
             created      |-> <<".*", " hat die Gruppe «", "(.*)", "» erstellt", ".">>,
             rename       |-> <<".*", " hat den Betreff von «", ".*", "» zu «",
                                "(.*)", "» geändert", ".">>]]

NoMatch == [ok |-> FALSE, g1 |-> "", g2 |-> ""]

\* $ : the end of the string, or just before a newline that ends the string
AtEnd(s, pos) == \/ pos = Len(s) + 1
                 \/ pos = Len(s) /\ Ch(s, pos) = "\n"

\* how many characters from pos on a wildcard without DOTALL can take
Run(s, pos) == LET k == FindFrom(s, "\n", pos)
               IN  IF k = 0 THEN Len(s) - pos + 1 ELSE k - pos

Max(S) == CHOOSE n \in S : \A m \in S : m <= n

Min(S) == CHOOSE n \in S : \A m \in S : n <= m

RECURSIVE ReMatch(_, _, _)
\* pattern.match(s) from position pos on, with greedy backtracking
ReMatch(toks, s, pos) ==
    IF toks = <<>> THEN [NoMatch EXCEPT !.ok = AtEnd(s, pos)]
    ELSE LET t == Head(toks)
             rest == Tail(toks)
         IN  IF t \in {".*", "(.*)"}
             THEN LET good == {n \in 0..Run(s, pos) : ReMatch(rest, s, pos + n).ok}
                  IN  IF good = {} THEN NoMatch
                      ELSE IF t = "(.*)"
                      THEN [ok |-> TRUE, g1 |-> SubSeq(s, pos, pos + Max(good) - 1),
                            g2 |-> ""]
                      ELSE ReMatch(rest, s, pos + Max(good))
             ELSE IF t = "."
             THEN IF pos <= Len(s) /\ Ch(s, pos) # "\n"
                  THEN ReMatch(rest, s, pos + 1) ELSE NoMatch
             ELSE IF pos + Len(t) - 1 <= Len(s) /\ SubSeq(s, pos, pos + Len(t) - 1) = t
                  THEN ReMatch(rest, s, pos + Len(t)) ELSE NoMatch

\* the date shape matches the first Len(shape) characters of s
MatchShape(shape, s) ==
    /\ Len(s) >= Len(shape)
    /\ \A k \in 1..Len(shape) :
          IF Ch(shape, k) = "d" THEN IsDigit(Ch(s, k))
          ELSE IF Ch(shape, k) = "." THEN Ch(s, k) # "\n"
          ELSE Ch(s, k) = Ch(shape, k)

\* self.regex_date_content.match(line)
regex_date_content(lang, line) ==
    LET shape == languages[lang].date_content
        n == Len(shape)
    IN  IF /\ Len(line) >= n + 3
           /\ SubSeq(line, n + 1, n + 3) = " - "
           /\ MatchShape(shape, line)
           /\ AtEnd(line, n + 4 + Run(line, n + 4))
        THEN [ok |-> TRUE, g1 |-> SubSeq(line, 1, n),
              g2 |-> SubSeq(line, n + 4, n + 3 + Run(line, n + 4))]
        ELSE NoMatch

\* self.regex_message.match(content): the split at the first colon-space,
\* the body running to the end of the content (re.DOTALL)
regex_message(content) ==
    LET k == Find(content, ": ")
    IN  IF k = 0 THEN NoMatch
        ELSE [ok |-> TRUE, g1 |-> SubSeq(content, 1, k - 1),
              g2 |-> Tail_(content, k + 2)]

regex_deleted(lang, body) == ReMatch(languages[lang].deleted, body, 1)

regex_media(lang, body) == ReMatch(languages[lang].media, body, 1)

regex_created(lang, content) == ReMatch(languages[lang].created, content, 1)

regex_rename(lang, content) == ReMatch(languages[lang].rename, content, 1)

\* the end of the run of [\w'-] that starts at position k of body
WordEnd(body, k) ==
    LET stops == {j \in k..Len(body) : ~IsWordChar(Ch(body, j))}
    IN  IF stops = {} THEN Len(body) ELSE Min(stops) - 1

RECURSIVE WordsFrom(_, _)
\* the matches of [\w'-]+ in body from position k on, left to right
WordsFrom(body, k) ==
    IF k > Len(body) THEN <<>>
    ELSE IF IsWordChar(Ch(body, k))
    THEN <<SubSeq(body, k, WordEnd(body, k))>> \o WordsFrom(body, WordEnd(body, k) + 1)
    ELSE WordsFrom(body, k + 1)

\* self.regex_words.finditer(body)
regex_words(body) == WordsFrom(body, 1)

-----------------------------------------------------------------------------
(* datetime.strptime and datetime arithmetic. *)

IsLeap(y) == y % 4 = 0 /\ (y % 100 # 0 \/ y % 400 = 0)

DaysInMonth(y, m) == IF m = 2 THEN (IF IsLeap(y) THEN 29 ELSE 28)
                     ELSE IF m \in {4, 6, 9, 11} THEN 30 ELSE 31

RECURSIVE DaysBeforeMonth(_, _)
DaysBeforeMonth(y, m) == IF m = 1 THEN 0
                         ELSE DaysBeforeMonth(y, m - 1) + DaysInMonth(y, m - 1)

DaysBeforeYear(y) == (y - 1) * 365 + (y - 1) \div 4 - (y - 1) \div 100 + (y - 1) \div 400

\* date.toordinal()
Ordinal(y, m, d) == DaysBeforeYear(y) + DaysBeforeMonth(y, m) + d

\* the datetime as seconds since 2020-01-01 00:00
Seconds(y, m, d, H, M) == (Ordinal(y, m, d) - Ordinal(2020, 1, 1)) * 86400 + H * 3600 + M * 60

\* (a - b).total_seconds()
total_seconds(a, b) == a - b

NoFields == [ok |-> TRUE, d |-> 1, m |-> 1, Y |-> 1900, H |-> 0, M |-> 0]

RECURSIVE ParseFmt(_, _, _, _, _)
\* The match of the text (from position j) against the format (from
\* position k).  A text that date_content let through has two digits per
\* field (four for %Y) and one blank after the comma, so a directive takes
\* exactly that many digits and the format's blank exactly one; whatever is
\* left over is "unconverted data".
ParseFmt(t, j, f, k, acc) ==
    IF k > Len(f) THEN [acc EXCEPT !.ok = (j > Len(t))]
    ELSE IF Ch(f, k) = "%"
    THEN LET dir == Ch(f, k + 1)
             w == IF dir = "Y" THEN 4 ELSE 2
         IN  IF j + w - 1 > Len(t) \/ \E n \in j..(j + w - 1) : ~IsDigit(Ch(t, n))
             THEN [acc EXCEPT !.ok = FALSE]
             ELSE LET n == Num(SubSeq(t, j, j + w - 1))
                      a == IF dir = "y"
                           THEN [acc EXCEPT !.Y = IF n <= 68 THEN 2000 + n ELSE 1900 + n]
                           ELSE [acc EXCEPT ![dir] = n]
                  IN  ParseFmt(t, j + w, f, k + 2, a)
    ELSE IF j <= Len(t) /\ Ch(t, j) = Ch(f, k)
         THEN ParseFmt(t, j + 1, f, k + 1, acc)
         ELSE [acc EXCEPT !.ok = FALSE]

\* datetime.strptime(text, fmt): ok is FALSE where it raises ValueError
strptime(text, fmt) ==
    LET r == ParseFmt(text, 1, fmt, 1, NoFields)
        valid == /\ r.ok
                 /\ r.d \in 1..31 /\ r.m \in 1..12 /\ r.H \in 0..23 /\ r.M \in 0..59
                 /\ r.Y >= 1
                 /\ r.d <= DaysInMonth(r.Y, r.m)
    IN  IF valid THEN [ok |-> TRUE, date |-> Seconds(r.Y, r.m, r.d, r.H, r.M)]
        ELSE [ok |-> FALSE, date |-> 0]

-----------------------------------------------------------------------------
(* The Parser.  An operation is a function from the Parser's state (the    *)
(* record Self of its fields, with the history fields) to its next state.  *)

\* the stop-word list that __init__ reads from the file cw, lines stripped
common_words == {"the", "und"}

NoMsgE1 == "No entry was found. Make sure you used the right language code."

NoMsgE2 == "Error while parsing date. Make sure you used the right language code."

\* the fields of a msgs element, by the column names visualize gives them
member(m) == m[1]

date_(m) == m[2]

body_len(m) == m[3]

parts(m) == m[4]

initiator_(m) == m[5]

Last(q) == q[Len(q)]

\* the entry of a defaultdict(int) or of the history counter
Get(f, a) == IF a \in DOMAIN f THEN f[a] ELSE 0

Bump(f, a) == [b \in DOMAIN f \cup {a} |-> Get(f, b) + IF b = a THEN 1 ELSE 0]

RECURSIVE SumOver(_, _)
SumOver(f, S) == IF S = {} THEN 0
                 ELSE LET a == CHOOSE b \in S : TRUE
                      IN  f[a] + SumOver(f, S \ {a})

\* the number of handle_text_message calls made so far
NCalls(c) == SumOver(c, DOMAIN c)

\* Initiator with the day's silence tested by <= instead of <
Initiator_le(p, date, body) ==
    IF p.multipart /\ Len(p.msgs) > 0
    THEN LET diff == total_seconds(date, date_(Last(p.msgs)))
         IN  ~(diff <= 60 * 60 * 24 \/ ~Contains(body, "?"))
    ELSE TRUE

\* Initiator with the flag starting out False
Initiator_unset(p, date, body) ==
    IF p.multipart /\ Len(p.msgs) > 0
    THEN LET diff == total_seconds(date, date_(Last(p.msgs)))
         IN  ~(diff < 60 * 60 * 24 \/ ~Contains(body, "?"))
    ELSE FALSE

\* initiator, as lines 80-87 leave it
Initiator(p, date, body) ==
    IF p.multipart /\ Len(p.msgs) > 0
    THEN LET diff == total_seconds(date, date_(Last(p.msgs)))
         IN  ~(diff < 60 * 60 * 24 \/ ~Contains(body, "?"))
    ELSE TRUE

\* Multipart with the three minutes tested by <= instead of <
Multipart_le(p, date, author) ==
    IF p.multipart /\ Len(p.msgs) > 0
    THEN LET diff == total_seconds(date, date_(Last(p.msgs)))
         IN  member(Last(p.msgs)) = author /\ diff <= 60 * 3
    ELSE FALSE

\* multipart, as lines 80-90 leave it
Multipart(p, date, author) ==
    IF p.multipart /\ Len(p.msgs) > 0
    THEN LET diff == total_seconds(date, date_(Last(p.msgs)))
         IN  member(Last(p.msgs)) = author /\ diff < 60 * 3
    ELSE FALSE

RECURSIVE AddWords(_, _)
\* the loop of lines 92-95 over the words found
AddWords(text, words) ==
    IF words = <<>> THEN text
    ELSE LET word == lower(Head(words))
         IN  AddWords(IF word \notin common_words THEN text \o " " \o word ELSE text,
                      Tail(words))

RECURSIVE AddWords_each(_, _)
AddWords_each(text, words) ==
    IF words = <<>> THEN text
    ELSE LET word == lower(Head(words))
         IN  AddWords_each((IF word \notin common_words THEN text \o " " \o word
                            ELSE text) \o ". ", Tail(words))

\* ExtractWords with the terminator appended inside the loop over the words
ExtractWords_each(text, body) == AddWords_each(text, regex_words(body))

\* lines 92-96
ExtractWords(text, body) == AddWords(text, regex_words(body)) \o ". "

\* Aggregate with a new Message inserted at the front of the list
Aggregate_front(q, multi, date, author, body, init) ==
    IF multi
    THEN [q EXCEPT ![Len(q)] = <<@[1], @[2], @[3] + Len(body), @[4] + 1, @[5]>>]
    ELSE <<<<author, date, Len(body), 1, init>>>> \o q

\* Aggregate with a merge that overwrites the length instead of adding to it
Aggregate_overwrite(q, multi, date, author, body, init) ==
    IF multi
    THEN [q EXCEPT ![Len(q)] = <<@[1], @[2], Len(body), @[4] + 1, @[5]>>]
    ELSE Append(q, <<author, date, Len(body), 1, init>>)

\* Aggregate with a merge into the first Message of the list
Aggregate_first(q, multi, date, author, body, init) ==
    IF multi
    THEN [q EXCEPT ![1] = <<@[1], @[2], @[3] + Len(body), @[4] + 1, @[5]>>]
    ELSE Append(q, <<author, date, Len(body), 1, init>>)

\* Aggregate with a merge that takes a part off the count
Aggregate_dec(q, multi, date, author, body, init) ==
    IF multi
    THEN [q EXCEPT ![Len(q)] = <<@[1], @[2], @[3] + Len(body), @[4] - 1, @[5]>>]
    ELSE Append(q, <<author, date, Len(body), 1, init>>)

\* Aggregate with a merge that moves the timestamp to the part merged
Aggregate_slide(q, multi, date, author, body, init) ==
    IF multi
    THEN [q EXCEPT ![Len(q)] = <<@[1], date, @[3] + Len(body), @[4] + 1, @[5]>>]
    ELSE Append(q, <<author, date, Len(body), 1, init>>)

\* Aggregate with a merge that adds the length but does not count the part
Aggregate_nocount(q, multi, date, author, body, init) ==
    IF multi
    THEN [q EXCEPT ![Len(q)] = <<@[1], @[2], @[3] + Len(body), @[4], @[5]>>]
    ELSE Append(q, <<author, date, Len(body), 1, init>>)

\* lines 98-102
Aggregate(q, multi, date, author, body, init) ==
    IF multi
    THEN [q EXCEPT ![Len(q)] = <<@[1], @[2], @[3] + Len(body), @[4] + 1, @[5]>>]
    ELSE Append(q, <<author, date, Len(body), 1, init>>)

handle_text_message(p, date, author, body) ==
    [p EXCEPT !.all_words = ExtractWords(p.all_words, body),
              !.msgs = Aggregate(p.msgs, Multipart(p, date, author), date, author,
                                 body, Initiator(p, date, body)),
              !.calls = Bump(p.calls, author),
              !.chrono = p.chrono /\ (p.last_call = None \/ Val(p.last_call).date <= date),
              !.last_call = Some([date |-> date, author |-> author, body |-> body]),
              !.ingested = Append(@, [date |-> date, author |-> author, body |-> body])]

\* print(..., file=sys.stderr); sys.exit(1)
Exit(p, text) == [p EXCEPT !.stderr = text, !.exit_status = Some(1)]

\* lines 122-125
ResolveAuthor(al, author) ==
    LET a == IF author \in DOMAIN al THEN al[author] ELSE author
    IN  IF Contains(a, " ") /\ ~Contains(a, "+")
        THEN SubSeq(a, 1, Find(a, " ") - 1)
        ELSE a

\* SystemNotice that keeps a title once it is set
SystemNotice_keep(p) ==
    LET created == regex_created(p.language, p.content_buffer)
        rename == regex_rename(p.language, p.content_buffer)
    IN  IF p.chat_name # None THEN p
        ELSE [p EXCEPT !.chat_name = IF rename.ok THEN Some(rename.g1)
                                     ELSE IF created.ok THEN Some(created.g1) ELSE @,
                       !.titles = @ \o (IF created.ok THEN <<created.g1>> ELSE <<>>)
                                    \o (IF rename.ok THEN <<rename.g1>> ELSE <<>>)]

\* lines 134-142
SystemNotice(p) ==
    LET created == regex_created(p.language, p.content_buffer)
        rename == regex_rename(p.language, p.content_buffer)
    IN  [p EXCEPT !.chat_name = IF rename.ok THEN Some(rename.g1)
                                ELSE IF created.ok THEN Some(created.g1) ELSE @,
                  !.titles = @ \o (IF created.ok THEN <<created.g1>> ELSE <<>>)
                               \o (IF rename.ok THEN <<rename.g1>> ELSE <<>>)]

\* Classify that records a placeholder as an empty Message of its author
Classify_mark(p) ==
    LET date == strptime(Val(p.date_buffer), languages[p.language].date_format)
        message == regex_message(p.content_buffer)
    IN  IF ~date.ok THEN Exit(p, NoMsgE2)
        ELSE IF message.ok
        THEN LET author == ResolveAuthor(p.aliases, message.g1)
                 body == message.g2
             IN  IF regex_deleted(p.language, body).ok \/ regex_media(p.language, body).ok
                 THEN [p EXCEPT !.msgs = Append(@, <<author, date.date, 0, 1, FALSE>>)]
                 ELSE handle_text_message(p, date.date, author, body)
        ELSE SystemNotice(p)

\* Classify without the test for a media placeholder
Classify_media(p) ==
    LET date == strptime(Val(p.date_buffer), languages[p.language].date_format)
        message == regex_message(p.content_buffer)
    IN  IF ~date.ok THEN Exit(p, NoMsgE2)
        ELSE IF message.ok
        THEN LET author == ResolveAuthor(p.aliases, message.g1)
                 body == message.g2
             IN  IF regex_deleted(p.language, body).ok THEN p
                 ELSE handle_text_message(p, date.date, author, body)
        ELSE SystemNotice(p)

\* Classify that skips an entry whose date does not parse
Classify_skip(p) ==
    LET date == strptime(Val(p.date_buffer), languages[p.language].date_format)
        message == regex_message(p.content_buffer)
    IN  IF ~date.ok THEN p
        ELSE IF message.ok
        THEN LET author == ResolveAuthor(p.aliases, message.g1)
                 body == message.g2
             IN  IF regex_deleted(p.language, body).ok THEN p
                 ELSE IF regex_media(p.language, body).ok THEN p
                 ELSE handle_text_message(p, date.date, author, body)
        ELSE SystemNotice(p)

\* lines 109-144
Classify(p) ==
    LET date == strptime(Val(p.date_buffer), languages[p.language].date_format)
        message == regex_message(p.content_buffer)
    IN  IF ~date.ok THEN Exit(p, NoMsgE2)
        ELSE IF message.ok
        THEN LET author == ResolveAuthor(p.aliases, message.g1)
                 body == message.g2
             IN  IF regex_deleted(p.language, body).ok THEN p
                 ELSE IF regex_media(p.language, body).ok THEN p
                 ELSE handle_text_message(p, date.date, author, body)
        ELSE SystemNotice(p)

\* p with this call of handle_entry put on record
Entered(p) == [p EXCEPT !.handled = Append(@, <<p.date_buffer, p.content_buffer>>)]

\* handle_entry that returns silently when there is no entry
handle_entry_silent(p) ==
    IF p.date_buffer = None THEN Entered(p) ELSE Classify(Entered(p))

handle_entry(p) ==
    IF p.date_buffer = None THEN Exit(Entered(p), NoMsgE1) ELSE Classify(Entered(p))

\* parse_line that joins the first entry's content to the lines before it
parse_line_join(p, line) ==
    LET match == regex_date_content(p.language, line)
    IN  IF match.ok
        THEN LET q == IF p.date_buffer \notin {None, Some("")} THEN handle_entry(p) ELSE p
             IN  IF q.exit_status # None THEN q
                 ELSE [q EXCEPT !.date_buffer = Some(match.g1),
                                !.content_buffer = IF p.date_buffer = None
                                                   THEN @ \o match.g2 ELSE match.g2]
        ELSE [p EXCEPT !.content_buffer = @ \o "\n" \o line]

\* parse_line that starts a new entry without finalizing the pending one
parse_line_nofinal(p, line) ==
    LET match == regex_date_content(p.language, line)
    IN  IF match.ok
        THEN [p EXCEPT !.date_buffer = Some(match.g1), !.content_buffer = match.g2]
        ELSE [p EXCEPT !.content_buffer = @ \o "\n" \o line]

parse_line(p, line) ==
    LET match == regex_date_content(p.language, line)
    IN  IF match.ok
        THEN LET q == IF p.date_buffer \notin {None, Some("")} THEN handle_entry(p) ELSE p
             IN  IF q.exit_status # None THEN q
                 ELSE [q EXCEPT !.date_buffer = Some(match.g1), !.content_buffer = match.g2]
        ELSE [p EXCEPT !.content_buffer = @ \o "\n" \o line]

Self ==
    [language |-> language, aliases |-> aliases, multipart |-> multipart,
     date_buffer |-> date_buffer, content_buffer |-> content_buffer,
     chat_name |-> chat_name, member_msg_count |-> member_msg_count,
     msgs |-> msgs, all_words |-> all_words,
     exit_status |-> exit_status, stderr |-> stderr,
     calls |-> calls, last_call |-> last_call, chrono |-> chrono,
     ingested |-> ingested, handled |-> handled, titles |-> titles]

\* the Parser's fields become those of q
Becomes(q) ==
    /\ language' = q.language /\ aliases' = q.aliases /\ multipart' = q.multipart
    /\ date_buffer' = q.date_buffer /\ content_buffer' = q.content_buffer
    /\ chat_name' = q.chat_name /\ member_msg_count' = q.member_msg_count
    /\ msgs' = q.msgs /\ all_words' = q.all_words
    /\ exit_status' = q.exit_status /\ stderr' = q.stderr
    /\ calls' = q.calls /\ last_call' = q.last_call /\ chrono' = q.chrono
    /\ ingested' = q.ingested /\ handled' = q.handled /\ titles' = q.titles

\* Parser.__init__(language, aliases, multipart)
Constructed(lang, al, mp) ==
    /\ language = lang /\ aliases = al /\ multipart = mp
    /\ date_buffer = None /\ content_buffer = "" /\ chat_name = None
    /\ member_msg_count = [a \in {} |-> 0]
    /\ msgs = <<>> /\ all_words = ""
    /\ exit_status = None /\ stderr = ""
    /\ calls = [a \in {} |-> 0] /\ last_call = None /\ chrono = TRUE
    /\ ingested = <<>> /\ handled = <<>> /\ titles = <<>>

-----------------------------------------------------------------------------
(* Spec: a client calls handle_text_message on a fresh Parser. *)

Authors == {"Alice", "Bob"}

Bodies == {"", "the Fox?"}

Dates == {0, 179, 180, 86399, 86400}

Init ==
    /\ pc = "ready" /\ fp = <<>> /\ i = 0
    /\ \E mp \in BOOLEAN : Constructed("en", [a \in {} |-> ""], mp)

CallHandleTextMessage ==
    /\ pc = "ready"
    /\ NCalls(calls) < MaxCalls
    /\ \E date \in Dates, author \in Authors, body \in Bodies :
          \E q \in {handle_text_message(Self, date, author, body)} : Becomes(q)
    /\ UNCHANGED <<fp, i, pc>>

Next == CallHandleTextMessage

Spec == Init /\ [][Next]_vars

-----------------------------------------------------------------------------
(* SpecParse: parse_file(fp) on a fresh Parser.  fp holds the lines the    *)
(* file has yielded so far; it may end after any line.                     *)

Line(text) == text \o "\n"

Scenario ==
    << Line("01/01/2020, 10:00 - Alice: Hello"),
       Line("01/01/2020, 10:01 - Alice: How are you?"),
       Line("02/01/2020, 10:05 - Bob: I am fine, thanks for asking?") >>

Lines ==
    { Scenario[k] : k \in 1..3 } \cup
    { Line("see you"),
      Line("01/01/2020, 10:01 - Bob: <Media omitted>"),
      Line("01/01/2020, 09:00 - Al created Group \"Fam\""),
      Line("01/01/2020, 09:30 - Al changed the subject from \"Fam\" to \"Pals\""),
      Line("01/01/2020, 10:02 - Messages are encrypted"),
      Line("31/02/2020, 10:00 - Alice: Hi"),
      Line("01/01/2020, 10:02 - Jane Doe: the Quick fox"),
      Line("01.01.20, 10:00 - Alice: Hallo") }

AliasChoices ==
    { [a \in {} |-> ""],
      [a \in {"Jane Doe", "Bob"} |-> IF a = "Bob" THEN "Bob M" ELSE "Alice"] }

InitParse ==
    /\ pc = "parsing" /\ fp = <<>> /\ i = 0
    /\ \E lang \in DOMAIN languages, al \in AliasChoices, mp \in BOOLEAN :
          Constructed(lang, al, mp)

\* one iteration of the loop of parse_file, on a line of the pool
ParseLineFrom(pool) ==
    /\ pc = "parsing"
    /\ i < MaxLines
    /\ \E line \in pool :
          \E q \in {parse_line(Self, line)} :
              /\ Becomes(q)
              /\ fp' = Append(fp, line)
              /\ IF q.exit_status # None
                 THEN pc' = "exit" /\ i' = i
                 ELSE pc' = pc /\ i' = i + 1

ParseLine == ParseLineFrom(Lines)

\* the end of the loop: the last handle_entry of parse_file
EndOfFile ==
    /\ pc = "parsing"
    /\ \E q \in {handle_entry(Self)} :
           /\ Becomes(q)
           /\ pc' = IF q.exit_status # None THEN "exit" ELSE "done"
    /\ UNCHANGED <<fp, i>>

NextParse == ParseLine \/ EndOfFile

SpecParse == InitParse /\ [][NextParse]_vars

-----------------------------------------------------------------------------
(* SpecEntries: parse_file(fp) on a fresh Parser of the "en" locale, over  *)
(* entries of every class the classifier tells apart, with dates that      *)
(* parse and dates that do not.                                            *)

Deleted == Line("01/01/2020, 10:01 - Bob: This message was deleted")

Media == Line("01/01/2020, 10:01 - Bob: <Media omitted>")

Created == Line("01/01/2020, 09:00 - Al created Group \"Fam\"")

Renamed == Line("01/01/2020, 09:30 - Al changed the subject from \"Fam\" to \"Pals\"")

RenamedAgain == Line("01/01/2020, 09:45 - Al changed the subject from \"Pals\" to \"Crew\"")

Unrecognized == Line("01/01/2020, 10:02 - Messages are encrypted")

Continuation == Line("see you")

\* entry-start lines whose date text strptime rejects (no 31st of February)
BadDateLines ==
    { Line("31/02/2020, 10:00 - Alice: Hi"),
      Line("31/02/2020, 10:01 - Bob: <Media omitted>"),
      Line("31/02/2020, 09:00 - Al created Group \"Fam\""),
      Line("31/02/2020, 10:02 - Messages are encrypted") }

EntryLines ==
    { Scenario[k] : k \in 1..3 } \cup BadDateLines \cup
    { Deleted, Media, Created, Renamed, RenamedAgain, Unrecognized, Continuation }

InitEntries ==
    /\ pc = "parsing" /\ fp = <<>> /\ i = 0
    /\ \E mp \in BOOLEAN : Constructed("en", [a \in {} |-> ""], mp)

ParseEntryLine == ParseLineFrom(EntryLines)

NextEntries == ParseEntryLine \/ EndOfFile

SpecEntries == InitEntries /\ [][NextEntries]_vars

-----------------------------------------------------------------------------
(* The claims. *)

\* this step made a call of handle_text_message
Called == NCalls(calls') = NCalls(calls) + 1

\* the arguments of the call this step made
Arg == Val(last_call')

\* C1: with the multipart toggle on and a Message recorded, a call of
\* handle_text_message merges exactly when the author equals the last
\* Message's author and the date is less than 180 seconds after the last
\* Message's timestamp: a merge adds 1 to the last Message's part count and
\* the body's length to its body length and appends nothing; otherwise one
\* Message with part count 1 and the body's length is appended.
C1_MergeIff ==
    [][(Called /\ multipart /\ Len(msgs) > 0) =>
         LET last == Last(msgs)
             new == Last(msgs')
         IN  IF member(last) = Arg.author /\ Arg.date - date_(last) < 180
             THEN /\ Len(msgs') = Len(msgs)
                  /\ parts(new) = parts(last) + 1
                  /\ body_len(new) = body_len(last) + Len(Arg.body)
             ELSE /\ Len(msgs') = Len(msgs) + 1
                  /\ parts(new) = 1
                  /\ body_len(new) = Len(Arg.body)]_vars

\* a second part merged 179 seconds after the first
C1_Witness ==
    /\ multipart /\ Len(msgs) = 1 /\ NCalls(calls) = 2
    /\ Val(last_call).date - date_(msgs[1]) = 179
    /\ parts(msgs[1]) = 2 /\ body_len(msgs[1]) = 16

\* C2: with the multipart toggle on and a Message recorded, a chat message
\* that is appended as a new Message is an initiator exactly when it comes
\* at least 86400 seconds after the last Message and its body holds a "?".
C2_InitiatorIff ==
    [][(Called /\ multipart /\ Len(msgs) > 0 /\ Len(msgs') = Len(msgs) + 1) =>
         (initiator_(Last(msgs')) <=>
             (Arg.date - date_(Last(msgs)) >= 86400 /\ Contains(Arg.body, "?")))]_vars

\* an initiator exactly 86400 seconds after the Message before it
C2_Witness ==
    /\ multipart /\ Len(msgs) = 2 /\ NCalls(calls) = 2
    /\ date_(msgs[2]) - date_(msgs[1]) = 86400
    /\ initiator_(msgs[2])

\* C3: the first chat message a Parser ingests is appended as a Message
\* with part count 1 that is an initiator, whatever its body, author and
\* date; the first Message stays an initiator.
C3_FirstMessage ==
    /\ NCalls(calls) = 1 =>
          msgs = << <<Val(last_call).author, Val(last_call).date,
                      Len(Val(last_call).body), 1, TRUE>> >>
    /\ NCalls(calls) >= 1 => (Len(msgs) >= 1 /\ initiator_(msgs[1]))

\* the first message, with an empty body, is an initiator
C3_Witness ==
    /\ NCalls(calls) = 1 /\ Len(msgs) = 1
    /\ Val(last_call).body = "" /\ initiator_(msgs[1])

\* the timestamps of the list of Messages never decrease
Sorted(q) == \A k \in 1..(Len(q) - 1) : date_(q[k]) <= date_(q[k + 1])

\* this step left the Messages alone, merged into the last one, or put one
\* new Message, with the date of the entry it finalized, after all others
InOrder ==
    \/ msgs' = msgs
    \/ Called /\ Len(msgs') = Len(msgs)
    \/ Called /\ Len(msgs') = Len(msgs) + 1
              /\ SubSeq(msgs', 1, Len(msgs)) = msgs
              /\ date_(Last(msgs')) = Arg.date

\* C4 as stated (its timestamp half): whatever the input of parse_file, the
\* timestamps of the recorded Messages never decrease.
C4_Original == Sorted(msgs)

\* C4 as amended: every new Message is put after all earlier ones, in the
\* order of the entries that made them, and the timestamps of the Messages
\* never decrease as long as the chat messages of the input come in
\* chronological order.
C4_InputOrder == [](chrono => Sorted(msgs)) /\ [][InOrder]_vars

\* a finished run over a chronological input that left two Messages at
\* different times
C4_Witness ==
    /\ pc = "done" /\ chrono /\ Len(msgs) = 2
    /\ date_(msgs[1]) < date_(msgs[2])

\* the canonical name the lookup order of the claim gives a raw author
ClaimedAuthor(al, raw) ==
    IF raw \in DOMAIN al THEN al[raw]
    ELSE IF Contains(raw, " ") /\ ~Contains(raw, "+")
    THEN SubSeq(raw, 1, Find(raw, " ") - 1)
    ELSE raw

\* C5: handle_entry hands handle_text_message the alias of the raw author
\* as it is when the alias mapping has one, else the raw author's first
\* blank-delimited token when it has a blank and no "+", else the raw author.
C5_Original ==
    [][Called => Arg.author = ClaimedAuthor(aliases, regex_message(content_buffer).g1)]_vars

\* the default Parser of the "en" locale has read the three lines of the
\* scenario to the end
ScenarioRun ==
    /\ pc = "done" /\ fp = Scenario
    /\ language = "en" /\ multipart /\ DOMAIN aliases = {}

\* C6 as stated: the scenario yields Alice's Message of 01/01/2020 10:00 with
\* two parts, body length 21, an initiator, then Bob's of 02/01/2020 10:05
\* with one part, an initiator.
C6_Original ==
    ScenarioRun =>
        /\ Len(msgs) = 2
        /\ SubSeq(msgs[1], 1, 2) = <<"Alice", Seconds(2020, 1, 1, 10, 0)>>
        /\ parts(msgs[1]) = 2 /\ body_len(msgs[1]) = 21 /\ initiator_(msgs[1])
        /\ SubSeq(msgs[2], 1, 2) = <<"Bob", Seconds(2020, 1, 2, 10, 5)>>
        /\ parts(msgs[2]) = 1 /\ initiator_(msgs[2])

\* C6 as amended: the same, with body length 17 (5 + 12) for Alice's Message.
C6_Scenario ==
    ScenarioRun =>
        /\ Len(msgs) = 2
        /\ SubSeq(msgs[1], 1, 2) = <<"Alice", Seconds(2020, 1, 1, 10, 0)>>
        /\ parts(msgs[1]) = 2 /\ body_len(msgs[1]) = 17 /\ initiator_(msgs[1])
        /\ SubSeq(msgs[2], 1, 2) = <<"Bob", Seconds(2020, 1, 2, 10, 5)>>
        /\ parts(msgs[2]) = 1 /\ initiator_(msgs[2])

C6_Witness == ScenarioRun /\ Len(msgs) = 2 /\ exit_status = None

\* C7: the message counter of every author is the number of
\* handle_text_message calls made for that author.
C7_Original ==
    \A a \in DOMAIN calls \cup DOMAIN member_msg_count :
        Get(member_msg_count, a) = Get(calls, a)

\* this step appended text to the corpus, or left it alone
Appended == \E k \in 0..Len(all_words') :
                /\ SubSeq(all_words', 1, k) = all_words
                /\ IF Called
                   THEN /\ Count(SubSeq(all_words', k + 1, Len(all_words')), ". ") = 1
                        /\ SubSeq(all_words', Len(all_words') - 1, Len(all_words')) = ". "
                   ELSE k = Len(all_words')

\* C8: the corpus only grows, by one rendering that ends with the one
\* terminator in it per handle_text_message call, merged or not, and by
\* nothing in any other step; so it holds as many terminators as chat
\* messages were ingested.
C8_Corpus ==
    /\ [](Count(all_words, ". ") = NCalls(calls))
    /\ [][Appended]_vars

\* a finished run over a message, another author's media placeholder and a
\* second message that was merged into the first: two terminators
C8_Witness ==
    /\ pc = "done" /\ language = "en"
    /\ fp = <<Scenario[1], Line("01/01/2020, 10:01 - Bob: <Media omitted>"), Scenario[2]>>
    /\ Len(msgs) = 1 /\ parts(msgs[1]) = 2
    /\ Count(all_words, ". ") = 2

\* C9: a call of handle_text_message leaves every Message but the last as it
\* is and never shortens the list; a merge leaves the last Message's author,
\* timestamp and initiator flag as they are and makes its part count and
\* body length no smaller; an append leaves the last Message as it is too.
C9_Frame ==
    [][/\ Len(msgs') >= Len(msgs)
       /\ \A k \in 1..(Len(msgs) - 1) : msgs'[k] = msgs[k]
       /\ (Called /\ Len(msgs') = Len(msgs)) =>
             /\ Len(msgs) > 0
             /\ member(Last(msgs')) = member(Last(msgs))
             /\ date_(Last(msgs')) = date_(Last(msgs))
             /\ initiator_(Last(msgs')) = initiator_(Last(msgs))
             /\ parts(Last(msgs')) = parts(Last(msgs)) + 1
             /\ body_len(Last(msgs')) >= body_len(Last(msgs))
       /\ Len(msgs') > Len(msgs) => SubSeq(msgs', 1, Len(msgs)) = msgs]_vars

\* a merge into the second of two Messages
C9_Witness ==
    /\ Len(msgs) = 2 /\ NCalls(calls) = 3
    /\ parts(msgs[1]) = 1 /\ parts(msgs[2]) = 2

\* no line read so far starts an entry
NoEntryLine == \A k \in 1..Len(fp) : ~regex_date_content(language, fp[k]).ok

\* C10: a parse_file that comes to its last handle_entry with the date buffer
\* unset, as it does on an input without any entry-start line, ends with
\* exit status 1 and the no-entry diagnostic, and has recorded no Message,
\* no corpus text and no chat title.
C10_NoEntry ==
    (pc # "parsing" /\ (date_buffer = None \/ NoEntryLine)) =>
        /\ pc = "exit" /\ exit_status = Some(1) /\ stderr = NoMsgE1
        /\ date_buffer = None
        /\ msgs = <<>> /\ all_words = "" /\ chat_name = None

\* the run exited on an input of non-matching lines only
C10_Witness ==
    /\ pc = "exit" /\ date_buffer = None
    /\ Len(fp) >= 1 /\ content_buffer # ""

\* this step made a call of handle_entry
Handed == Len(handled') = Len(handled) + 1

\* the entry (date text, content) this step handed to handle_entry
Entry == Last(handled')

\* the line starts an entry
EntryStart(line) == regex_date_content(language, line).ok

\* the date text of an entry is one the locale's date format rejects
BadDate(e) == e[1] # None /\ ~strptime(Val(e[1]), languages[language].date_format).ok

\* the line starts an entry whose date text the date format rejects
BadStart(line) ==
    LET match == regex_date_content(language, line)
    IN  match.ok /\ ~strptime(match.g1, languages[language].date_format).ok

\* C11: an entry whose date text does not parse is never skipped and ends
\* the run when it is finalized, whatever its content: the run never comes
\* to "done" past it, no line after the one that finalized it is read, the
\* exit has status 1 and the date diagnostic, the step that finalizes it
\* leaves Messages, corpus and title alone, and nothing happens after.
C11_BadDateFatal ==
    /\ [](\A k \in 1..Len(fp) : BadStart(fp[k]) =>
             /\ pc # "done"
             /\ pc = "exit" => (exit_status = Some(1) /\ stderr = NoMsgE2)
             /\ \A j \in (k + 1)..Len(fp) :
                    EntryStart(fp[j]) => (j = Len(fp) /\ pc = "exit"))
    /\ [][(Handed /\ BadDate(Entry)) =>
             /\ pc' = "exit" /\ exit_status' = Some(1) /\ stderr' = NoMsgE2
             /\ UNCHANGED <<msgs, all_words, chat_name, titles, ingested>>]_vars
    /\ [][pc # "exit"]_vars

\* the run exited on a group-created notice with a bad date that came after
\* a chat message: one Message, no title
C11_Witness ==
    /\ pc = "exit" /\ stderr = NoMsgE2 /\ Len(handled) = 2
    /\ date_buffer = Some("31/02/2020, 09:00")
    /\ regex_created(language, content_buffer).ok
    /\ Len(msgs) = 1 /\ chat_name = None

\* C12: every recorded Message has a part count of at least 1 and a body
\* length of at least 0.
C12_Positive ==
    \A k \in 1..Len(msgs) : parts(msgs[k]) >= 1 /\ body_len(msgs[k]) >= 0

\* a Message of two merged parts whose bodies were both empty
C12_Witness ==
    /\ Len(msgs) = 1 /\ Len(ingested) = 2
    /\ parts(msgs[1]) = 2 /\ body_len(msgs[1]) = 0

RECURSIVE Group(_, _, _)
\* the entries of the lines from the k-th on, after the entries acc: an
\* entry-start line opens an entry with its date text and content, any
\* other line is joined to the entry open before it, if there is one
Group(lines, k, acc) ==
    IF k > Len(lines) THEN acc
    ELSE LET match == regex_date_content(language, lines[k])
         IN  Group(lines, k + 1,
                   IF match.ok THEN Append(acc, <<Some(match.g1), match.g2>>)
                   ELSE IF acc = <<>> THEN acc
                   ELSE [acc EXCEPT ![Len(acc)] = <<@[1], @[2] \o "\n" \o lines[k]>>])

\* the entries of an input, in input order
Entries(lines) == Group(lines, 1, <<>>)

\* the handle_entry calls made so far are the first of the entries e
HandledInOrder(e) ==
    /\ Len(handled) <= Len(e)
    /\ handled = SubSeq(e, 1, Len(handled))

\* C13 as stated (its count): a run over an input with an entry-start line
\* ends with as many handle_entry calls made as the input has entry-start
\* lines.
C13_Original ==
    LET e == Entries(fp)
    IN  (pc # "parsing" /\ e # <<>>) => Len(handled) = Len(e)

\* C13 as amended: over an input with an entry-start line, handle_entry is
\* called with the entries of the input, once each and in input order: an
\* entry is handed over, with the buffers as they are, by the step that reads
\* the next entry-start line or comes to the end of the input; while lines
\* are read all entries but the pending one have been handed over, and a
\* run that comes to its end has handed over all of them.  A run that
\* exits on a date that does not parse has handed over the entries up to
\* the one with that date, and none after it.
C13_EachEntryOnce ==
    /\ [](LET e == Entries(fp)
          IN  e # <<>> =>
                /\ HandledInOrder(e)
                /\ pc = "parsing" => Len(handled) = Len(e) - 1
                /\ pc = "done" => Len(handled) = Len(e)
                /\ pc = "exit" =>
                      /\ BadDate(Last(handled))
                      /\ \A k \in 1..(Len(handled) - 1) : ~BadDate(handled[k]))
    /\ [][Handed =>
             /\ Entry = <<date_buffer, content_buffer>>
             /\ \/ fp' = fp /\ pc' # "parsing"
                \/ fp' # fp /\ EntryStart(Last(fp'))
                            /\ pc' = "parsing" =>
                                  date_buffer' = Some(regex_date_content(language, Last(fp')).g1)]_vars

\* a finished run over an entry of two lines and an entry of one line: two
\* handle_entry calls, the first with the continuation line in its content
C13_Witness ==
    /\ pc = "done" /\ Len(fp) = 3 /\ fp[2] = Continuation
    /\ EntryStart(fp[1]) /\ EntryStart(fp[3])
    /\ Len(handled) = 2 /\ Contains(handled[1][2], "\nsee you\n")

\* the content splits into author and body, and the body is the
\* deleted-message or the media placeholder
IsPlaceholder(content) ==
    LET message == regex_message(content)
    IN  /\ message.ok
        /\ \/ regex_deleted(language, message.g2).ok
           \/ regex_media(language, message.g2).ok

\* the content does not split into author and body, and is a group-created
\* or group-renamed notice
IsNotice(content) ==
    /\ ~regex_message(content).ok
    /\ \/ regex_created(language, content).ok
       \/ regex_rename(language, content).ok

\* the content neither splits into author and body nor is a notice
IsUnrecognized(content) ==
    ~regex_message(content).ok /\ ~IsNotice(content)

\* the title a notice carries
NoticeTitle(content) ==
    IF regex_rename(language, content).ok THEN regex_rename(language, content).g1
    ELSE regex_created(language, content).g1

\* C14: the step that finalizes an entry with a good date that is not a chat
\* message to aggregate leaves Messages, corpus and counters as they are
\* and does not end the run: a placeholder makes no handle_text_message
\* call and leaves the title, an unrecognized entry leaves the title too,
\* and a notice changes nothing but the title, which becomes the notice's.
\* Any step without a handle_text_message call leaves Messages and corpus.
C14_Frame ==
    /\ [][(Handed /\ Entry[1] # None /\ ~BadDate(Entry)
              /\ (IsPlaceholder(Entry[2]) \/ IsNotice(Entry[2]) \/ IsUnrecognized(Entry[2]))) =>
             /\ ~Called
             /\ UNCHANGED <<msgs, all_words, member_msg_count, exit_status, stderr>>
             /\ IF IsNotice(Entry[2])
                THEN chat_name' = Some(NoticeTitle(Entry[2]))
                ELSE UNCHANGED <<chat_name, titles>>
             /\ fp' = fp => UNCHANGED <<date_buffer, content_buffer>>]_vars
    /\ [][~Called => UNCHANGED <<msgs, all_words>>]_vars

\* a finished run over a media placeholder, an unrecognized entry and a
\* group-created notice: no Message, no corpus text, the notice's title
C14_Witness ==
    /\ pc = "done" /\ fp = <<Media, Unrecognized, Created>>
    /\ Len(handled) = 3 /\ msgs = <<>> /\ all_words = ""
    /\ chat_name = Some("Fam")

RECURSIVE NoticeTitles(_, _)
\* the titles of the notices among the first k entries handed to
\* handle_entry, in the order the code assigns them (group-created first)
NoticeTitles(h, k) ==
    IF k = 0 THEN <<>>
    ELSE LET content == h[k][2]
             here == IF h[k][1] = None \/ BadDate(h[k]) \/ regex_message(content).ok
                     THEN <<>>
                     ELSE (IF regex_created(language, content).ok
                           THEN <<regex_created(language, content).g1>> ELSE <<>>)
                          \o (IF regex_rename(language, content).ok
                              THEN <<regex_rename(language, content).g1>> ELSE <<>>)
         IN  NoticeTitles(h, k - 1) \o here

\* how many times the title was given a value other than the one it had
TitleChanges ==
    Cardinality({k \in 1..Len(titles) : k = 1 \/ titles[k] # titles[k - 1]})

\* C15 as stated: over a parse run the chat title is set at most twice
\* (counting only the times it is given a value it did not have).
C15_Original == TitleChanges <= 2

\* C15 as amended: the chat title is set once for every group-created or
\* group-renamed notice finalized, in input order, however many there are;
\* it is unset as long as there was none and holds the title of the latest
\* one after; no other step sets it.
C15_TitlePerNotice ==
    /\ [](/\ titles = NoticeTitles(handled, Len(handled))
          /\ chat_name = IF titles = <<>> THEN None ELSE Some(Last(titles)))
    /\ [][chat_name' # chat_name => (Handed /\ IsNotice(Entry[2]))]_vars

\* a finished run over a group-created notice and two group-renamed
\* notices: the title was set three times
C15_Witness ==
    /\ pc = "done" /\ fp = <<Created, Renamed, RenamedAgain>>
    /\ titles = <<"Fam", "Pals", "Crew">> /\ chat_name = Some("Crew")

\* C16: with the multipart toggle off, a call of handle_text_message with a
\* Message recorded appends a Message with part count 1, and that Message
\* is an initiator only if the date is at least 86400 seconds after the
\* last Message's and the body holds a "?".
C16_Original ==
    [][(Called /\ ~multipart /\ Len(msgs) > 0) =>
         /\ Len(msgs') = Len(msgs) + 1
         /\ parts(Last(msgs')) = 1
         /\ initiator_(Last(msgs')) =>
               (Arg.date - date_(Last(msgs)) >= 86400 /\ Contains(Arg.body, "?"))]_vars

\* C17: a merge leaves the timestamp of the Message as the first part set
\* it, and the part merged is dated less than 180 seconds after that
\* timestamp; a message of the last Message's author dated 180 seconds or
\* more after that timestamp is appended as a new Message, however soon
\* after the message ingested before it.
C17_Anchored ==
    /\ [][(Called /\ Len(msgs') = Len(msgs)) =>
             /\ date_(Last(msgs')) = date_(Last(msgs))
             /\ Arg.date - date_(Last(msgs')) < 180]_vars
    /\ [][(Called /\ multipart /\ Len(msgs) > 0
              /\ Arg.author = member(Last(msgs))
              /\ Arg.date - date_(Last(msgs)) >= 180) =>
             /\ Len(msgs') = Len(msgs) + 1
             /\ Last(msgs') = <<Arg.author, Arg.date, Len(Arg.body), 1, FALSE>>
                \/ Last(msgs') = <<Arg.author, Arg.date, Len(Arg.body), 1, TRUE>>]_vars

\* one author's messages at 0, 179 and 180 seconds: the second is merged
\* into the first, the third, one second after the second, is a new Message
C17_Witness ==
    /\ multipart /\ Len(ingested) = 3
    /\ \A k \in 1..3 : ingested[k].author = "Alice"
    /\ <<ingested[1].date, ingested[2].date, ingested[3].date>> = <<0, 179, 180>>
    /\ Len(msgs) = 2
    /\ date_(msgs[1]) = 0 /\ parts(msgs[1]) = 2
    /\ date_(msgs[2]) = 180 /\ parts(msgs[2]) = 1

RECURSIVE SumField(_, _, _)
\* the sum of the f-th field over the first k Messages
SumField(q, f, k) == IF k = 0 THEN 0 ELSE SumField(q, f, k - 1) + q[k][f]

RECURSIVE SumBodies(_, _)
\* the sum of the lengths of the first k ingested bodies
SumBodies(h, k) == IF k = 0 THEN 0 ELSE SumBodies(h, k - 1) + Len(h[k].body)

\* C18: with the multipart toggle on or off, the part counts of the
\* Messages add up to the number of handle_text_message calls made, and
\* their body lengths to the sum of the lengths of the bodies ingested.
C18_Conservation ==
    /\ SumField(msgs, 4, Len(msgs)) = Len(ingested)
    /\ SumField(msgs, 3, Len(msgs)) = SumBodies(ingested, Len(ingested))

\* three messages ingested, two of them merged: two Messages, three parts,
\* sixteen characters
C18_Witness ==
    /\ Len(ingested) = 3 /\ Len(msgs) = 2
    /\ parts(msgs[1]) = 2 /\ parts(msgs[2]) = 1
    /\ SumBodies(ingested, 3) = 16
    /\ body_len(msgs[1]) + body_len(msgs[2]) = 16

RECURSIVE TextEntries(_, _)
\* the chat messages among the first k entries handed to handle_entry: the
\* entries with a good date whose content splits into author and body with
\* a body that is no placeholder, as date, resolved author and body
TextEntries(h, k) ==
    IF k = 0 THEN <<>>
    ELSE LET message == regex_message(h[k][2])
         IN  TextEntries(h, k - 1) \o
             (IF h[k][1] = None \/ BadDate(h[k]) \/ ~message.ok \/ IsPlaceholder(h[k][2])
              THEN <<>>
              ELSE << [date |-> strptime(Val(h[k][1]), languages[language].date_format).date,
                       author |-> ResolveAuthor(aliases, message.g1),
                       body |-> message.g2] >>)

RECURSIVE ReplayMsgs(_, _)
\* the Messages a Parser with this toggle has after the first k chat
\* messages of c, and nothing else, were ingested one after the other
ReplayMsgs(c, k) ==
    IF k = 0 THEN <<>>
    ELSE LET q == ReplayMsgs(c, k - 1)
             p == [multipart |-> multipart, msgs |-> q]
         IN  Aggregate(q, Multipart(p, c[k].date, c[k].author), c[k].date,
                       c[k].author, c[k].body, Initiator(p, c[k].date, c[k].body))

\* C19: placeholders, notices and unrecognized entries, wherever they lie,
\* are transparent to the heuristics: the chat messages ingested are the
\* chat-message entries finalized, and the Messages are those that come of
\* ingesting these alone, one after the other, so that merge and initiator
\* are decided against the Message of the chat message before, across any
\* other entries between.
C19_Transparent ==
    /\ ingested = TextEntries(handled, Len(handled))
    /\ msgs = ReplayMsgs(ingested, Len(ingested))

\* a finished run in which two messages of Alice one minute apart, with a
\* deleted-message placeholder of Bob between them, made one Message
C19_Witness ==
    /\ pc = "done" /\ multipart
    /\ fp = <<Scenario[1], Deleted, Scenario[2]>>
    /\ Len(handled) = 3 /\ Len(ingested) = 2
    /\ Len(msgs) = 1 /\ member(msgs[1]) = "Alice" /\ parts(msgs[1]) = 2

RECURSIVE Strip(_)
\* the input without the non-matching lines before its first entry-start line
Strip(lines) ==
    IF lines = <<>> \/ EntryStart(Head(lines)) THEN lines ELSE Strip(Tail(lines))

\* the Parser as it was constructed
Fresh ==
    [Self EXCEPT !.date_buffer = None, !.content_buffer = "", !.chat_name = None,
                 !.member_msg_count = [a \in {} |-> 0], !.msgs = <<>>,
                 !.all_words = "", !.exit_status = None, !.stderr = "",
                 !.calls = [a \in {} |-> 0], !.last_call = None, !.chrono = TRUE,
                 !.ingested = <<>>, !.handled = <<>>, !.titles = <<>>]

RECURSIVE Feed(_, _, _)
\* p after parse_file's loop over the lines from the k-th on
Feed(p, lines, k) ==
    IF k > Len(lines) \/ p.exit_status # None THEN p
    ELSE Feed(parse_line(p, lines[k]), lines, k + 1)

\* the Parser a run of parse_file on the lines gives: after the loop, or,
\* for a run that has ended, after the handle_entry that follows the loop
RunOn(lines, ended) ==
    LET q == Feed(Fresh, lines, 1)
    IN  IF ended /\ q.exit_status = None THEN handle_entry(q) ELSE q

\* what a run leaves: Messages, corpus, title, exit and the entries made
Outcome(q) ==
    <<q.msgs, q.all_words, q.chat_name, q.exit_status, q.stderr,
      q.date_buffer, q.content_buffer, q.handled>>

\* C20: while only non-matching lines have been read the run goes on with
\* nothing recorded; once an entry-start line has been read after such
\* lines, Messages, corpus, title, exit and the entries handed to
\* handle_entry (so none of them holds a leading line) are those of the run
\* on the same input without the non-matching lines before its first
\* entry-start line.
C20_LeadingLines ==
    LET rest == Strip(fp)
    IN  /\ (rest = <<>> /\ pc = "parsing") =>
              /\ exit_status = None /\ date_buffer = None /\ handled = <<>>
              /\ msgs = <<>> /\ all_words = "" /\ chat_name = None
        /\ (rest # <<>> /\ rest # fp) =>
              Outcome(Self) = Outcome(RunOn(rest, pc # "parsing"))

\* a finished run over two non-matching lines and a chat message: one
\* Message, and the one entry handed over is the chat message's alone
C20_Witness ==
    /\ pc = "done" /\ exit_status = None
    /\ fp = <<Continuation, Continuation, Scenario[1]>>
    /\ handled = << <<Some("01/01/2020, 10:00"), "Alice: Hello">> >>
    /\ Len(msgs) = 1 /\ all_words = " hello. "

====
